---------------------------- MODULE Spec2Model ----------------------------
(***************************************************************************)
(* Markov switching autoregression (MarkovAutoregression) of               *)
(* statsmodels/tsa/regime_switching/markov_autoregression.py.              *)
(*                                                                         *)
(* Floating point numbers are modelled as exact rationals <<num, den>>     *)
(* (den > 0, lowest terms); <<0, 0>> is NaN.  Arrays are sequences,        *)
(* n-dimensional arrays are records [shape, data] whose data maps 0-based  *)
(* index tuples to numbers.  Regimes and time indices are 0-based, as in   *)
(* the source.                                                             *)
(***************************************************************************)
EXTENDS Integers, Sequences, FiniteSets, TLC

VARIABLES
    built,      \* "none" before the constructor ran, then "ok" or "error"
    model,      \* the MarkovAutoregression instance (self)
    op,         \* the operation that ran last
    arg,        \* the parameter vector the caller passed to it
    argAfter,   \* the caller's parameter vector after the call returned
    outcome,    \* "returned" or "raised"
    result,     \* what the call returned
    em          \* the activation record of _em_iteration

vars == <<built, model, op, arg, argAfter, outcome, result, em>>

---------------------------------------------------------------------------
(* Bounds of the model *)
MaxK == 2
MaxOrder == 2
MaxNobs == 7
MaxSeed == 2

---------------------------------------------------------------------------
(* Exact rational arithmetic *)

Abs(x) == IF x < 0 THEN -x ELSE x

RECURSIVE GCD(_, _)
GCD(a, b) == IF b = 0 THEN a ELSE GCD(b, a % b)

NaN == <<0, 0>>
IsNaN(a) == a[2] = 0

Norm(n, d) ==
    IF d = 0 THEN NaN
    ELSE LET s == IF d < 0 THEN -1 ELSE 1
             g == GCD(Abs(n), Abs(d))
         IN  <<(s * n) \div g, (s * d) \div g>>

R(i) == <<i, 1>>
Zero == R(0)
One == R(1)
(* sums and products reduce before they multiply, to keep the integers small *)
RAdd(a, b) ==
    IF IsNaN(a) \/ IsNaN(b) THEN NaN
    ELSE LET g == GCD(a[2], b[2])
         IN  Norm(a[1] * (b[2] \div g) + b[1] * (a[2] \div g), (a[2] \div g) * b[2])
RNeg(a) == <<-a[1], a[2]>>
RSub(a, b) == RAdd(a, RNeg(b))
RMul(a, b) ==
    IF IsNaN(a) \/ IsNaN(b) THEN NaN
    ELSE LET g1 == GCD(Abs(a[1]), b[2])
             g2 == GCD(Abs(b[1]), a[2])
         IN  Norm((a[1] \div g1) * (b[1] \div g2), (a[2] \div g2) * (b[2] \div g1))
RDiv(a, b) ==
    IF IsNaN(a) \/ IsNaN(b) \/ b[1] = 0 THEN NaN
    ELSE IF b[1] > 0 THEN RMul(a, <<b[2], b[1]>>)
    ELSE RMul(a, <<-b[2], -b[1]>>)
RSq(a) == RMul(a, a)
RPos(a) == a[2] > 0 /\ a[1] > 0

(* a function or sequence with its values computed *)
Explicit(f) == f @@ <<>>

RECURSIVE SumTo(_, _)
SumTo(f, n) == IF n = 0 THEN Zero ELSE RAdd(SumTo(f, n - 1), f[n])
VSum(v) == SumTo(v, Len(v))
Dot(a, b) == VSum([p \in 1..Len(a) |-> RMul(a[p], b[p])])
Take(v, ixs) == Explicit([p \in 1..Len(ixs) |-> v[ixs[p]]])
MatVec(A, x) == Explicit([t \in 1..Len(A) |-> Dot(A[t], x)])

---------------------------------------------------------------------------
(* n-dimensional arrays *)

RECURSIVE Indices(_)
Indices(shape) ==
    IF shape = <<>> THEN {<<>>}
    ELSE {<<i>> \o r : i \in 0..(shape[1] - 1), r \in Indices(Tail(shape))}

Last(s) == s[Len(s)]


---------------------------------------------------------------------------
(* Parameter layout: self.parameters (MarkovSwitchingParams).  A block of  *)
(* coefficients takes one slot per non-switching coefficient and k_regimes *)
(* slots per switching coefficient; the blocks follow each other in the    *)
(* order exog, autoregressive, variance.                                   *)

RECURSIVE BlockSize(_, _)
BlockSize(sw, k) ==
    IF sw = <<>> THEN 0
    ELSE (IF sw[1] THEN k ELSE 1) + BlockSize(Tail(sw), k)

SubSeqTo(s, n) == Explicit([p \in 1..n |-> s[p]])

(* slots of regime i in a block that starts after `base` slots *)
BlockIdx(sw, k, base, i) ==
    [c \in 1..Len(sw) |->
        base + BlockSize(SubSeqTo(sw, c - 1), k) + (IF sw[c] THEN i ELSE 0) + 1]

Switching(m, key) ==
    CASE key = "exog" -> m.switching_coeffs
      [] key = "autoregressive" -> m.switching_ar
      [] OTHER -> <<m.switching_variance>>

BlockBase(m, key) ==
    CASE key = "exog" -> 0
      [] key = "autoregressive" -> BlockSize(m.switching_coeffs, m.k_regimes)
      [] OTHER -> BlockSize(m.switching_coeffs, m.k_regimes)
                    + BlockSize(m.switching_ar, m.k_regimes)

(* self.parameters[i, key] *)
ParamIdx(m, i, key) == BlockIdx(Switching(m, key), m.k_regimes, BlockBase(m, key), i)

(* self.parameters[key] *)
ParamSlice(m, key) ==
    [p \in 1..BlockSize(Switching(m, key), m.k_regimes) |-> BlockBase(m, key) + p]

Regimes(m) == 0..(m.k_regimes - 1)

KParams(m) == BlockBase(m, "variance") + BlockSize(<<m.switching_variance>>, m.k_regimes)

---------------------------------------------------------------------------
(* Construction *)

(* slice(None, None, None) *)
All == -1

(* lagmat(x, maxlag)[maxlag:]: row t holds x[t-1], ..., x[t-maxlag] *)
lagmat(x, maxlag) ==
    Explicit([t \in 1..(Len(x) - maxlag) |->
                Explicit([j \in 1..maxlag |-> x[maxlag + t - j]])])

(* the trend columns MarkovRegression prepends to exog *)
TrendExog(trend, nobs) ==
    [t \in 1..nobs |->
        CASE trend = "c" -> <<One>>
          [] trend = "t" -> <<R(t)>>
          [] trend = "ct" -> <<One, R(t)>>
          [] OTHER -> <<>>]

KTrend(trend) ==
    CASE trend = "c" -> 1 [] trend = "t" -> 1 [] trend = "ct" -> 2 [] OTHER -> 0

Drop(s, n) == Explicit([p \in 1..(Len(s) - n) |-> s[p + n]])

NoModel ==
    [k_regimes |-> 0, order |-> 0, nobs |-> 0, k_exog |-> 0,
     switching_ar |-> <<>>, switching_coeffs |-> <<>>, switching_variance |-> FALSE,
     orig_endog |-> <<>>, endog |-> <<>>, orig_exog |-> <<>>, exog |-> <<>>,
     exog_ar |-> <<>>, resid_slices |-> <<>>]

(* lines 86-92: a boolean is repeated `order` times, a sequence must have length order *)
SwitchingArList(switching_ar, order) ==
    IF switching_ar.isBool THEN [j \in 1..order |-> switching_ar.bool]
    ELSE switching_ar.list

SwitchingArValid(switching_ar, order) ==
    switching_ar.isBool \/ Len(switching_ar.list) = order

(* a variant that lets a series of exactly `order` observations through *)
AtLeastOrderObservations(nobs, order) == ~(nobs < order)

(* lines 103-105 *)
EnoughObservations(nobs, order) == ~(nobs <= order)

(* a variant that keeps the number of observations given to the constructor *)
UntrimmedNobs(nobs, order) == nobs

(* line 111: self.nobs -= self.order *)
TrimmedNobs(nobs, order) == nobs - order

(* the base classes' __init__: stores the configuration and puts the trend *)
(* columns before the columns of exog (<<>> for None)                      *)
BaseInit(a) ==
    LET kx == IF a.exog = <<>> THEN 0 ELSE Len(a.exog[1])
    IN  [NoModel EXCEPT
            !.k_regimes = a.k_regimes, !.order = a.order, !.nobs = Len(a.endog),
            !.k_exog = KTrend(a.trend) + kx,
            !.switching_coeffs = [c \in 1..(KTrend(a.trend) + kx) |->
                                    IF c <= KTrend(a.trend) THEN a.switching_trend
                                    ELSE a.switching_exog],
            !.switching_variance = a.switching_variance,
            !.endog = a.endog,
            !.exog = [t \in 1..Len(a.endog) |->
                        TrendExog(a.trend, Len(a.endog))[t]
                            \o (IF a.exog = <<>> THEN <<>> ELSE a.exog[t])]]

(* MarkovAutoregression.__init__ after the checks passed; a holds the arguments *)
InitModel(a) ==
    LET base == BaseInit(a)
    IN  [base EXCEPT
            !.switching_ar = SwitchingArList(a.switching_ar, a.order),
            !.exog_ar = lagmat(a.endog, a.order),
            !.nobs = TrimmedNobs(base.nobs, a.order),
            !.orig_endog = base.endog,
            !.endog = Drop(base.endog, a.order),
            !.orig_exog = IF base.k_exog > 0 THEN base.exog ELSE <<>>,
            !.exog = IF base.k_exog > 0 THEN Drop(base.exog, a.order) ELSE base.exog,
            !.resid_slices = [ax \in 1..(a.order + 1) |-> All]]

ConstructionFails(a) ==
    \/ ~SwitchingArValid(a.switching_ar, a.order)
    \/ ~EnoughObservations(Len(a.endog), a.order)


---------------------------------------------------------------------------
(* _resid *)

(* line 142: params = np.array(params, ndmin=1) makes a fresh array; the   *)
(* caller's vector after the call                                          *)
CallerParamsAfterResid(params) == params

(* a variant where ix is the cached list itself, ix = self._resid_slices, *)
(* so that the writes to ix reach the template                           *)
AliasedSlices(template, ix) == ix

(* lines 166, 178: ix = self._resid_slices[:] copies the cached template,  *)
(* so the writes ix[0] = i, ix[j] = k leave the template as it was         *)
ResidSlicesAfterIndexing(template, ix) == template

SafeAt(s, p) == IF p \in DOMAIN s THEN s[p] ELSE NaN

(* lines 151-155: xb[i] = np.dot(self.orig_exog, params[self.parameters[i, 'exog']]) *)
Xb(m, params, i) == MatVec(m.orig_exog, Take(params, ParamIdx(m, i, "exog")))

(* lines 157-159 *)
ResidShape(m) ==
    [a \in 1..(m.order + 2) |-> IF a <= m.order + 1 THEN m.k_regimes ELSE m.nobs]

(* an index tuple selected by the index list ix (an integer or All per axis) *)
SliceMatch(ix, idx) ==
    \A a \in 1..Len(ix) : a <= Len(idx) => (ix[a] = All \/ ix[a] = idx[a])

(* resid[ix] -= val, val running along the time axis *)
SubtractOnSlice(data, ix, val) ==
    Explicit([idx \in DOMAIN data |->
                IF SliceMatch(ix, idx) THEN RSub(data[idx], SafeAt(val, Last(idx) + 1))
                ELSE data[idx]])

(* lines 166-170: the baseline y_t - x_t beta^{(i)}; st = [data, slices] *)
ResidBaseline(m, params, st, i) ==
    [data |-> IF m.k_exog > 0
              THEN SubtractOnSlice(st.data, [st.slices EXCEPT ![1] = i],
                                   Drop(Xb(m, params, i), m.order))
              ELSE st.data,
     slices |-> ResidSlicesAfterIndexing(st.slices, [st.slices EXCEPT ![1] = i])]

(* lines 185-190: coefficient * (orig_endog[start:end] - xb[start:end]), the *)
(* subtraction of xb only with regressors                                   *)
ScaledLag(m, coefficient, start, xb) ==
    Explicit([t \in 1..(Len(m.orig_endog) - m.order) |->
                RMul(coefficient,
                     IF m.k_exog > 0
                     THEN RSub(m.orig_endog[start + t], xb[start + t])
                     ELSE m.orig_endog[start + t])])

(* a variant that takes xb of the current regime i for the lagged term *)
LagTermCurrentRegime(m, params, i, j, k) ==
    ScaledLag(m, params[ParamIdx(m, i, "autoregressive")[j]], m.order - j,
              Xb(m, params, i))

(* lines 183-190: ar_coeffs[j-1] * (orig_endog[start:end] - xb[k][start:end]) *)
LagTerm(m, params, i, j, k) ==
    ScaledLag(m, params[ParamIdx(m, i, "autoregressive")[j]], m.order - j,
              Xb(m, params, k))

(* lines 178-190 for one (i, j, k) *)
ResidLag(m, params, st, i, j, k) ==
    [data |-> SubtractOnSlice(st.data, [st.slices EXCEPT ![1] = i, ![j + 1] = k],
                              LagTerm(m, params, i, j, k)),
     slices |-> ResidSlicesAfterIndexing(st.slices,
                                         [st.slices EXCEPT ![1] = i, ![j + 1] = k])]

(* lines 174-190: for k in range(self.k_regimes), from k on *)
RECURSIVE ResidLoopK(_, _, _, _, _, _)
ResidLoopK(m, params, st, i, j, k) ==
    IF k >= m.k_regimes THEN st
    ELSE ResidLoopK(m, params, ResidLag(m, params, st, i, j, k), i, j, k + 1)

(* lines 173-190: for j in range(1, self.order + 1), from j on *)
RECURSIVE ResidLoopJ(_, _, _, _, _)
ResidLoopJ(m, params, st, i, j) ==
    IF j > m.order THEN st
    ELSE ResidLoopJ(m, params, ResidLoopK(m, params, st, i, j, 0), i, j + 1)

(* lines 162-190: for i in range(self.k_regimes), from i on *)
RECURSIVE ResidLoopI(_, _, _, _)
ResidLoopI(m, params, st, i) ==
    IF i >= m.k_regimes THEN st
    ELSE ResidLoopI(m, params,
                    ResidLoopJ(m, params, ResidBaseline(m, params, st, i), i, 1),
                    i + 1)

(* the state of _resid when it returns: the tensor and the cached template; *)
(* lines 157-160 start it: resid = np.zeros(shape); resid[:] = self.endog   *)
ResidRun(m, params) ==
    ResidLoopI(m, params,
               [data |-> Explicit([idx \in Indices(ResidShape(m)) |->
                                     SafeAt(m.endog, Last(idx) + 1)]),
                slices |-> m.resid_slices],
               0)

(* what _resid(params) returns, given the state it ends in *)
ResidResult(m, run) == [shape |-> ResidShape(m), data |-> run.data]

(* _resid(params) *)
Resid(m, params) == ResidResult(m, ResidRun(m, params))


---------------------------------------------------------------------------
(* _conditional_likelihoods *)

(* the Gaussian density exp(-0.5 r^2 / v) / sqrt(2 pi v), kept as the pair *)
(* (r^2, v) that determines it; with v <= 0 numpy divides 0 by 0 or takes  *)
(* the square root of a negative number and the entry is nan               *)
Density(r, v) ==
    IF RPos(v) THEN [sq |-> RSq(r), variance |-> v] ELSE [sq |-> NaN, variance |-> NaN]

(* line 203: params[self.parameters['variance']].squeeze() drops the axes of length 1 *)
Squeeze(v) ==
    IF Len(v) = 1 THEN [shape |-> <<>>, data |-> (<<>> :> v[1])]
    ELSE [shape |-> <<Len(v)>>, data |-> [idx \in Indices(<<Len(v)>>) |-> v[idx[1] + 1]]]

(* line 205: np.reshape(variance, (self.k_regimes, 1, 1)) *)
VarianceShape(m) == <<m.k_regimes, 1, 1>>

ReshapeVariance(m, v) ==
    [shape |-> VarianceShape(m),
     data |-> [idx \in Indices(VarianceShape(m)) |-> v[idx[1] + 1]]]

(* lines 203-205 *)
VarianceArray(m, params) ==
    LET v == Take(params, ParamSlice(m, "variance"))
    IN  IF m.switching_variance THEN ReshapeVariance(m, v) ELSE Squeeze(v)

(* numpy broadcasting: shapes are aligned at their last axis *)
Max(a, b) == IF a >= b THEN a ELSE b
AxisLen(shape, n, a) ==
    IF a > n - Len(shape) THEN shape[a - (n - Len(shape))] ELSE 1
BroadcastShape(s1, s2) ==
    LET n == Max(Len(s1), Len(s2))
    IN  [a \in 1..n |-> Max(AxisLen(s1, n, a), AxisLen(s2, n, a))]
BroadcastOk(s1, s2) ==
    LET n == Max(Len(s1), Len(s2))
    IN  \A a \in 1..n :
            \/ AxisLen(s1, n, a) = AxisLen(s2, n, a)
            \/ AxisLen(s1, n, a) = 1
            \/ AxisLen(s2, n, a) = 1
(* the index into an operand of shape `shape` that a result index idx reads *)
BroadcastIdx(shape, idx) ==
    [a \in 1..Len(shape) |->
        IF shape[a] = 1 THEN 0 ELSE idx[a + (Len(idx) - Len(shape))]]

(* lines 207-208 *)
Likelihoods(resid, variance) ==
    [shape |-> BroadcastShape(resid.shape, variance.shape),
     data |-> Explicit([idx \in Indices(BroadcastShape(resid.shape, variance.shape)) |->
                          Density(resid.data[BroadcastIdx(resid.shape, idx)],
                                  variance.data[BroadcastIdx(variance.shape, idx)])])]

(* lines 202-210, resid being what line 200 got: [outcome, value]; numpy *)
(* raises when the two shapes cannot be broadcast                        *)
LikelihoodsWith(resid, variance) ==
    IF BroadcastOk(resid.shape, variance.shape)
    THEN [outcome |-> "returned", value |-> Likelihoods(resid, variance)]
    ELSE [outcome |-> "raised", value |-> <<>>]

LikelihoodsOfResid(m, params, resid) == LikelihoodsWith(resid, VarianceArray(m, params))

(* _conditional_likelihoods(params): [outcome, value] *)
ConditionalLikelihoods(m, params) == LikelihoodsOfResid(m, params, Resid(m, params))

---------------------------------------------------------------------------
(* transform_params, untransform_params *)

(* the largest r in lo..hi with r * r <= n *)
RECURSIVE ISqrtBetween(_, _, _)
ISqrtBetween(n, lo, hi) ==
    IF lo >= hi THEN lo
    ELSE LET mid == lo + ((hi - lo + 1) \div 2)
         IN  IF mid <= n \div mid THEN ISqrtBetween(n, mid, hi)
             ELSE ISqrtBetween(n, lo, mid - 1)
ISqrt(n) == ISqrtBetween(n, 0, n)
(* the square root of a rational that is a square of a rational *)
RSqrt(a) ==
    IF /\ a[2] > 0
       /\ a[1] >= 0
       /\ ISqrt(a[1]) * ISqrt(a[1]) = a[1]
       /\ ISqrt(a[2]) * ISqrt(a[2]) = a[2]
    THEN <<ISqrt(a[1]), ISqrt(a[2])>>
    ELSE NaN

(* row k of the Levinson-Durbin recursion over the partial autocorrelations r *)
LevinsonNext(prev, rk) ==
    Explicit([i \in 1..(Len(prev) + 1) |->
                IF i = Len(prev) + 1 THEN rk
                ELSE RAdd(prev[i], RMul(rk, prev[Len(prev) + 1 - i]))])

RECURSIVE LevinsonRow(_, _)
LevinsonRow(r, k) ==
    IF k = 0 THEN <<>> ELSE LevinsonNext(LevinsonRow(r, k - 1), r[k])

VNeg(y) == Explicit([p \in 1..Len(y) |-> RNeg(y[p])])

(* constrain_stationary_univariate: r = u / sqrt(1 + u^2), then the recursion *)
to_constrained(u) ==
    VNeg(LevinsonRow(Explicit([p \in 1..Len(u) |->
                                 RDiv(u[p], RSqrt(RAdd(One, RSq(u[p]))))]),
                     Len(u)))

(* the partial autocorrelations behind row y of the recursion *)
LevinsonPrevious(y) ==
    Explicit([i \in 1..(Len(y) - 1) |->
                RDiv(RSub(y[i], RMul(Last(y), y[Len(y) - i])),
                     RSub(One, RSq(Last(y))))])

RECURSIVE PartialAutocorrelations(_)
PartialAutocorrelations(y) ==
    IF y = <<>> THEN <<>>
    ELSE Append(PartialAutocorrelations(LevinsonPrevious(y)), Last(y))

FromPartialAutocorrelations(r) ==
    Explicit([p \in 1..Len(r) |-> RDiv(r[p], RSqrt(RSub(One, RSq(r[p]))))])

(* unconstrain_stationary_univariate: x = r / sqrt(1 - r^2) *)
to_unconstrained(c) == FromPartialAutocorrelations(PartialAutocorrelations(VNeg(c)))

(* x[ixs] = vals *)
Put(x, ixs, vals) ==
    Explicit([p \in 1..Len(x) |->
                IF \E q \in 1..Len(ixs) : ixs[q] = p
                THEN vals[CHOOSE q \in 1..Len(ixs) : ixs[q] = p]
                ELSE x[p]])

(* the inherited transform: a copy of the input, blocks other than the AR  *)
(* coefficients passed through                                             *)
InheritedTransform(m, x) == x

(* lines 396-399: for i in range(self.k_regimes), from i on *)
RECURSIVE TransformLoop(_, _, _, _)
TransformLoop(m, unconstrained, constrained, i) ==
    IF i >= m.k_regimes THEN constrained
    ELSE TransformLoop(m, unconstrained,
                       Put(constrained, ParamIdx(m, i, "autoregressive"),
                           to_constrained(Take(unconstrained,
                                               ParamIdx(m, i, "autoregressive")))),
                       i + 1)

(* transform_params(unconstrained) *)
transform_params(m, unconstrained) ==
    TransformLoop(m, unconstrained, InheritedTransform(m, unconstrained), 0)

(* lines 426-429 *)
RECURSIVE UntransformLoop(_, _, _, _)
UntransformLoop(m, constrained, unconstrained, i) ==
    IF i >= m.k_regimes THEN unconstrained
    ELSE UntransformLoop(m, constrained,
                         Put(unconstrained, ParamIdx(m, i, "autoregressive"),
                             to_unconstrained(Take(constrained,
                                                   ParamIdx(m, i, "autoregressive")))),
                         i + 1)

(* untransform_params(constrained) *)
untransform_params(m, constrained) ==
    UntransformLoop(m, constrained, InheritedTransform(m, constrained), 0)

---------------------------------------------------------------------------
(* Least squares *)

(* the Moore-Penrose inverse of the first k columns of A, column by column *)
(* (Greville); the result has k rows of Len(A) entries                     *)
(* the new last row b is appended and the rows before it corrected by d *)
GrevilleRows(P, d, b) ==
    Explicit([i \in 1..(Len(P) + 1) |->
                IF i = Len(P) + 1 THEN b
                ELSE Explicit([t \in 1..Len(b) |-> RSub(P[i][t], RMul(d[i], b[t]))])])

(* the row for the new column: c / (c . c) when the column has a part c    *)
(* outside the span of the columns before it, else (d' P) / (1 + d . d)    *)
GrevilleLastRow(P, d, c, cc, dd) ==
    Explicit(IF cc # Zero
             THEN [t \in 1..Len(c) |-> RDiv(c[t], cc)]
             ELSE [t \in 1..Len(c) |->
                     RDiv(VSum([i \in 1..Len(P) |-> RMul(d[i], P[i][t])]),
                          RAdd(One, dd))])

GrevilleWithResidual(P, d, c) ==
    GrevilleRows(P, d, GrevilleLastRow(P, d, c, Dot(c, c), Dot(d, d)))

(* d = P col, the coordinates of the new column; c = col - A d, its residual *)
GrevilleWithCoordinates(A, P, col, d) ==
    GrevilleWithResidual(P, d,
        Explicit([t \in 1..Len(A) |->
                    RSub(col[t], Dot(SubSeqTo(A[t], Len(P)), d))]))

GrevilleAppend(A, P, col) ==
    GrevilleWithCoordinates(A, P, col,
                            Explicit([i \in 1..Len(P) |-> Dot(P[i], col)]))

RECURSIVE GrevillePinv(_, _)
GrevillePinv(A, k) ==
    IF k = 0 THEN <<>>
    ELSE GrevilleAppend(A, GrevillePinv(A, k - 1),
                        Explicit([t \in 1..Len(A) |-> A[t][k]]))

(* np.dot(np.linalg.pinv(exog), endog), exog with ncols columns *)
LeastSquares(exog, ncols, endog) == MatVec(GrevillePinv(exog, ncols), endog)

VSub(x, y) == Explicit([t \in 1..Len(x) |-> RSub(x[t], y[t])])
(* np.var *)
Var(x) ==
    RDiv(VSum([t \in 1..Len(x) |-> RSq(RSub(x[t], RDiv(VSum(x), R(Len(x)))))]),
         R(Len(x)))

---------------------------------------------------------------------------
(* start_params *)

(* the inherited start_params and the inherited _em_iteration hand this class *)
(* a fresh parameter vector                                                   *)
InheritedParams(m) == [p \in 1..KParams(m) |-> Zero]

(* lines 310-315: np.c_[self.exog, self.exog_ar] *)
PooledExog(m) ==
    [t \in 1..m.nobs |->
        (IF m.k_exog > 0 THEN m.exog[t] ELSE <<>>)
            \o (IF m.order > 0 THEN m.exog_ar[t] ELSE <<>>)]

(* line 318 *)
PooledBetaOn(m, exog) == LeastSquares(exog, m.k_exog + m.order, m.endog)
PooledBeta(m) == PooledBetaOn(m, PooledExog(m))

(* lines 317-321, with exog and beta of lines 310-318 *)
PooledVarianceOn(m, exog, beta) ==
    IF m.k_exog > 0 \/ m.order > 0
    THEN Var(VSub(m.endog, MatVec(exog, beta)))
    ELSE Var(m.endog)

(* a variant with integer division, i // k *)
RegimeScaleFloor(i, k) == R(i \div k)

(* lines 328, 337: i / self.k_regimes under `from __future__ import division` *)
RegimeScale(i, k) == RDiv(R(i), R(k))

VScale(x, c) == Explicit([p \in 1..Len(x) |-> RMul(x[p], c)])

(* lines 326-328, 335-337: for i in range(self.k_regimes), from i on *)
RECURSIVE StartLoop(_, _, _, _, _)
StartLoop(m, params, key, beta, i) ==
    IF i >= m.k_regimes THEN params
    ELSE StartLoop(m, Put(params, ParamIdx(m, i, key),
                          VScale(beta, RegimeScale(i, m.k_regimes))),
                   key, beta, i + 1)

(* lines 324-339 for one block of coefficients *)
StartBlock(m, params, key, beta) ==
    IF Len(beta) = 0 THEN params
    ELSE IF (\E p \in 1..Len(Switching(m, key)) : Switching(m, key)[p]) THEN StartLoop(m, params, key, beta, 0)
    ELSE Put(params, ParamSlice(m, key), beta)

(* np.linspace(start, stop, num) *)
Linspace(start, stop, num) ==
    Explicit([p \in 1..num |->
                IF num = 1 THEN start
                ELSE RAdd(start, RMul(R(p - 1), RDiv(RSub(stop, start), R(num - 1))))])

(* lines 342-346 *)
StartVariance(m, params, variance) ==
    IF m.switching_variance
    THEN Put(params, ParamSlice(m, "variance"),
             Linspace(RDiv(variance, R(10)), variance, m.k_regimes))
    ELSE Put(params, ParamSlice(m, "variance"), <<variance>>)

(* start_params *)
(* lines 323-348, with exog and beta of lines 310-318 *)
StartParamsFrom(m, exog, beta) ==
    StartVariance(m,
                  StartBlock(m,
                             StartBlock(m, InheritedParams(m), "exog",
                                        SubSeqTo(beta, m.k_exog)),
                             "autoregressive", Drop(beta, m.k_exog)),
                  PooledVarianceOn(m, exog, beta))

start_params(m) == StartParamsFrom(m, PooledExog(m), PooledBeta(m))

---------------------------------------------------------------------------
(* The EM step *)

(* np.sqrt(result.smoothed_marginal_probabilities) *)
SqrtProbabilities(smoothed) ==
    Explicit([i \in 1..Len(smoothed) |->
                Explicit([t \in 1..Len(smoothed[i]) |-> RSqrt(smoothed[i][t])])])

(* w * x, elementwise *)
VMul(w, x) == Explicit([t \in 1..Len(x) |-> RMul(w[t], x[t])])
(* w[:, None] * X *)
RowScale(w, X) == Explicit([t \in 1..Len(X) |-> VScale(X[t], w[t])])
SumSq(x) == VSum([t \in 1..Len(x) |-> RSq(x[t])])

(* lines 266-270: row i of resid, the series adjusted by regime i's betas; *)
(* betas is <<>> for None                                                  *)
RegimeAdjusted(m, betas, i) ==
    IF m.k_exog > 0
    THEN VSub(m.orig_endog, MatVec(m.orig_exog, betas[i + 1]))
    ELSE m.orig_endog

(* line 283: coeffs[i], from endog and exog of lines 278-279 and the weights tmp[i] *)
EmCoeffs(m, w, endog, exog) ==
    LeastSquares(RowScale(w, exog), m.order, VMul(w, endog))

(* lines 286-289: the residuals of the unweighted series, weighted by the *)
(* probabilities                                                          *)
EmSwitchingVariance(probabilities, tmp_resid) ==
    RDiv(VSum([t \in 1..Len(tmp_resid) |-> RMul(RSq(tmp_resid[t]), probabilities[t])]),
         VSum(probabilities))

(* lines 285-292: variance[i]; w is tmp[i], coeffs is coeffs[i] *)
EmRegimeVariance(m, probabilities, w, endog, exog, coeffs) ==
    IF m.switching_variance
    THEN EmSwitchingVariance(probabilities, VSub(endog, MatVec(exog, coeffs)))
    ELSE SumSq(VSub(VMul(w, endog), MatVec(RowScale(w, exog), coeffs)))

(* lines 278-292 for regime i, once coeffs[i] is known: [coeffs, variance] *)
EmRegimeResult(m, probabilities, w, endog, exog, coeffs) ==
    [coeffs |-> coeffs,
     variance |-> EmRegimeVariance(m, probabilities, w, endog, exog, coeffs)]

(* lines 278-292 for regime i on its adjusted series resid[i] *)
EmRegimeOn(m, probabilities, w, endog, exog) ==
    EmRegimeResult(m, probabilities, w, endog, exog, EmCoeffs(m, w, endog, exog))

(* lines 277-292, the body of the loop for regime i; resid is resid[i] *)
EmRegime(m, probabilities, w, resid) ==
    EmRegimeOn(m, probabilities, w, Drop(resid, m.order), lagmat(resid, m.order))

(* a variant that divides by the length of the untrimmed sample *)
EmPooledVarianceUntrimmed(m, variance) == RDiv(VSum(variance), R(m.nobs + m.order))

(* lines 295-296: variance.sum() / self.nobs *)
EmPooledVariance(m, variance) == RDiv(VSum(variance), R(m.nobs))

(* lines 274-298, regimes being the results of the loop for every regime *)
EmCollect(m, regimes) ==
    [outcome |-> "returned",
     coeffs |-> [i \in 1..m.k_regimes |-> regimes[i].coeffs],
     variance |-> IF m.switching_variance
                  THEN [i \in 1..m.k_regimes |-> regimes[i].variance]
                  ELSE <<EmPooledVariance(m, [i \in 1..m.k_regimes |->
                                                 regimes[i].variance])>>]

(* lines 263-292 with the weights tmp *)
EmRegimes(m, smoothed, betas, tmp) ==
    Explicit([i \in 1..m.k_regimes |->
                EmRegime(m, smoothed[i], tmp[i], RegimeAdjusted(m, betas, i - 1))])

(* _em_autoregressive(result, betas): [outcome, coeffs, variance]; betas of *)
(* None is dereferenced only when there are exogenous regressors            *)
em_autoregressive(m, smoothed, betas) ==
    IF m.k_exog > 0 /\ betas = <<>>
    THEN [outcome |-> "raised", coeffs |-> <<>>, variance |-> <<>>]
    ELSE EmCollect(m, EmRegimes(m, smoothed, betas, SqrtProbabilities(smoothed)))

(* the positions from `from` on where the mask holds the value want *)
RECURSIVE Positions(_, _, _)
Positions(mask, want, from) ==
    IF from > Len(mask) THEN <<>>
    ELSE (IF mask[from] = want THEN <<from>> ELSE <<>>) \o Positions(mask, want, from + 1)
(* the columns of X at the positions pos *)
Columns(X, pos) == Explicit([t \in 1..Len(X) |-> Take(X[t], pos)])

(* MarkovRegression._em_exog: the non-switching coefficients by least squares *)
(* on the whole sample, then each regime's switching coefficients by least    *)
(* squares weighted with the square roots of its smoothed probabilities       *)
EmExogSwitching(m, endog1, swExog, ns, sw, nsCoeffs, tmp) ==
    Explicit([i \in 1..m.k_regimes |->
        Put(Put([c \in 1..(Len(ns) + Len(sw)) |-> Zero], ns, nsCoeffs), sw,
            LeastSquares(RowScale(tmp[i], swExog), Len(sw), VMul(tmp[i], endog1)))])

EmExogShared(m, endog, exog, ns, sw, nsExog, nsCoeffs, tmp) ==
    EmExogSwitching(m, IF Len(ns) > 0 THEN VSub(endog, MatVec(nsExog, nsCoeffs)) ELSE endog,
                    Columns(exog, sw), ns, sw, nsCoeffs, tmp)

EmExogOn(m, endog, exog, ns, sw, nsExog, tmp) ==
    EmExogShared(m, endog, exog, ns, sw, nsExog, LeastSquares(nsExog, Len(ns), endog), tmp)

em_exog(m, endog, exog, switching, tmp) ==
    EmExogOn(m, endog, exog, Positions(switching, FALSE, 1), Positions(switching, TRUE, 1),
             Columns(exog, Positions(switching, FALSE, 1)), tmp)

(* MarkovRegression._em_variance *)
em_variance(m, smoothed, endog, exog, betas, tmp) ==
    IF m.switching_variance
    THEN [i \in 1..m.k_regimes |->
            LET resid == VSub(endog, MatVec(exog, betas[i]))
            IN  RDiv(VSum([t \in 1..Len(endog) |-> RMul(RSq(resid[t]), smoothed[i][t])]),
                     VSum(smoothed[i]))]
    ELSE <<RDiv(VSum([i \in 1..m.k_regimes |->
                        SumSq(VSub(VMul(tmp[i], endog),
                                   MatVec(RowScale(tmp[i], exog), betas[i])))]),
                R(m.nobs))>>

(* lines 239-240, 253-254: for i in range(self.k_regimes): params1[...] = rows[i] *)
RECURSIVE PutRegimes(_, _, _, _, _)
PutRegimes(m, params1, key, rows, i) ==
    IF i >= m.k_regimes THEN params1
    ELSE PutRegimes(m, Put(params1, ParamIdx(m, i, key), rows[i + 1]), key, rows, i + 1)

(* a variant without the constant: if self._k_exog > 0 *)
UseJointPathWithExog(m) == m.k_exog > 0

(* line 244: if True or self._k_exog > 0 *)
UseJointPath(m) == TRUE \/ m.k_exog > 0

(* line 246: the betas handed to _em_autoregressive are the coeffs of lines 235-238 *)
BetasForAutoregressive(e) == e.coeffs

(* lines 239-240 *)
EmWriteExog(m, e, coeffs) ==
    [e EXCEPT !.coeffs = coeffs,
              !.params1 = PutRegimes(m, e.params1, "exog", coeffs, 0),
              !.trace = Append(e.trace, "exog")]

(* lines 236-240; e is the activation record *)
EmIterationExog(m, e) ==
    IF m.k_exog > 0
    THEN EmWriteExog(m, e, em_exog(m, m.endog, m.exog, m.switching_coeffs,
                                   SqrtProbabilities(e.smoothed)))
    ELSE e

(* lines 253-255 *)
EmWriteAutoregressive(m, e, ar_coeffs, variance, path) ==
    [e EXCEPT !.params1 = Put(PutRegimes(m, e.params1, "autoregressive", ar_coeffs, 0),
                              ParamSlice(m, "variance"), variance),
              !.trace = Append(e.trace, path)]

(* lines 245-246 and 253-255; r is what _em_autoregressive gave *)
EmJointPath(m, e, r) ==
    IF r.outcome = "raised"
    THEN [e EXCEPT !.outcome = "raised",
                   !.trace = Append(e.trace, "autoregressive_joint")]
    ELSE [EmWriteAutoregressive(m, e, r.coeffs, r.variance, "autoregressive_joint")
            EXCEPT !.arBetas = BetasForAutoregressive(e)]

(* lines 248-255; ar_coeffs is what _em_exog gave on the lagged design *)
EmAutoregressiveOnlyPath(m, e, ar_coeffs) ==
    EmWriteAutoregressive(m, e, ar_coeffs,
                          em_variance(m, e.smoothed, m.endog, m.exog_ar, ar_coeffs,
                                      SqrtProbabilities(e.smoothed)),
                          "autoregressive_only")

(* lines 243-255 *)
EmIterationAutoregressive(m, e) ==
    IF m.order > 0
    THEN IF UseJointPath(m)
         THEN EmJointPath(m, e, em_autoregressive(m, e.smoothed, BetasForAutoregressive(e)))
         ELSE EmAutoregressiveOnlyPath(m, e,
                                       em_exog(m, m.endog, m.exog_ar, m.switching_ar,
                                               SqrtProbabilities(e.smoothed)))
    ELSE e

(* line 257: the call returns, or the exception leaves it *)
EmReturn(e) ==
    [e EXCEPT !.pc = "done",
              !.outcome = IF e.outcome = "raised" THEN "raised" ELSE "returned"]

---------------------------------------------------------------------------
(* Inputs *)

(* switching_ar: a boolean, or a list of alternating booleans of any length *)
SwitchingArInputs ==
    {[isBool |-> TRUE, bool |-> b, list |-> <<>>] : b \in BOOLEAN}
    \cup {[isBool |-> FALSE, bool |-> FALSE,
           list |-> [j \in 1..len |-> (j % 2 = 1) = b]] :
            len \in 0..(MaxOrder + 1), b \in BOOLEAN}

(* endog is a series too short for the largest order or one long enough to   *)
(* estimate from; exog, when given, is one regressor; a Markov switching     *)
(* model has at least two regimes; d is the trend, whether exog is given,    *)
(* and switching_exog; switching_trend has its default                       *)
ConstructorInputs ==
    {[endog |-> [t \in 1..n |-> R(((t * t + t) % 5) - 1)],
      exog |-> IF d[2] THEN [t \in 1..n |-> <<R((t * t) % 3)>>] ELSE <<>>,
      k_regimes |-> k, order |-> o, trend |-> d[1], switching_ar |-> sa,
      switching_trend |-> TRUE, switching_exog |-> d[3], switching_variance |-> sv] :
        d \in {<<"nc", FALSE, FALSE>>, <<"c", FALSE, FALSE>>, <<"nc", TRUE, TRUE>>,
               <<"c", TRUE, FALSE>>},
        n \in (1..MaxOrder) \cup {MaxNobs}, k \in 2..MaxK,
        o \in 0..MaxOrder, sa \in SwitchingArInputs, sv \in BOOLEAN}

(* parameter vectors: slot p holds vals[(a * p + b) mod Len(vals)] *)
ParamVector(n, a, b, vals) == [p \in 1..n |-> vals[((a * p + b) % Len(vals)) + 1]]

CoefValues == <<R(1), R(-1), R(2), R(0), R(3)>>

ParamInputs(m) == {ParamVector(KParams(m), a, 0, CoefValues) : a \in 1..MaxSeed}

(* parameter vectors whose variance block holds val, val + 1, ... *)
WithVariance(m, params, val) ==
    LET s == ParamSlice(m, "variance")
    IN  [p \in 1..Len(params) |->
            IF p > s[1] - 1 THEN R(val + (p - s[1])) ELSE params[p]]

VarianceInputs(m) ==
    {WithVariance(m, ParamVector(KParams(m), 1, 0, CoefValues), val) : val \in {-1, 0, 1}}

(* unconstrained values u whose 1 + u^2 is the square of a rational *)
UnconstrainedInputs(m) ==
    {ParamVector(KParams(m), a, 0, <<<<3, 4>>, <<-4, 3>>, R(0), <<4, 3>>, <<-3, 4>>>>) :
        a \in 1..MaxSeed}

(* constrained vectors whose untransform takes square roots of squares only *)
ConstrainedInputs(m) ==
    {c \in {transform_params(m, u) : u \in UnconstrainedInputs(m)} :
        \A p \in 1..Len(c) : ~IsNaN(untransform_params(m, c)[p])}

(* smoothed probabilities: k_regimes rows of nobs entries, every column a *)
(* distribution over the regimes with entries that are squares            *)
OneHot(k, r) == [i \in 1..k |-> IF i = r + 1 THEN One ELSE Zero]
(* the matrix with the given columns: row i holds entry i of every column *)
FromColumns(k, cols) ==
    Explicit([i \in 1..k |-> Explicit([t \in 1..Len(cols) |-> cols[t][i]])])
Certain(m, r) == FromColumns(m.k_regimes, [t \in 1..m.nobs |-> OneHot(m.k_regimes, r)])
Mixed(m, s) ==
    FromColumns(m.k_regimes,
                [t \in 1..m.nobs |->
                    IF t = s
                    THEN [i \in 1..m.k_regimes |->
                            IF i = 1 THEN <<9, 25>>
                            ELSE IF i = 2 THEN <<16, 25>> ELSE Zero]
                    ELSE OneHot(m.k_regimes, (t + s) % m.k_regimes)])

SmoothedInputs(m) ==
    {Certain(m, r) : r \in Regimes(m)} \cup {Mixed(m, s) : s \in 1..MaxSeed}

(* the smoother's output in _em_iteration: the regime is known at every time *)
Known(m, s) ==
    FromColumns(m.k_regimes,
                [t \in 1..m.nobs |-> OneHot(m.k_regimes, ((t + s) \div 2) % m.k_regimes)])
KnownSmoothedInputs(m) ==
    {Certain(m, r) : r \in Regimes(m)} \cup {Known(m, s) : s \in 1..MaxSeed}

(* the coefficients of every regime read from a parameter vector; <<>> is None *)
BetasInputs(m) ==
    IF m.k_exog > 0
    THEN {[i \in 1..m.k_regimes |->
            Take(ParamVector(KParams(m), a, 0, <<R(1), R(0), R(-1)>>),
                 ParamIdx(m, i - 1, "exog"))] :
                a \in 1..MaxSeed}
    ELSE {<<>>}

---------------------------------------------------------------------------
(* The state machine *)

NoEm ==
    [pc |-> "idle", smoothed |-> <<>>, coeffs |-> <<>>, params1 |-> <<>>,
     arBetas |-> <<>>, trace |-> <<>>, outcome |-> "none"]

Init ==
    /\ built = "none"
    /\ model = NoModel
    /\ op = "none"
    /\ arg = <<>>
    /\ argAfter = <<>>
    /\ outcome = "none"
    /\ result = <<>>
    /\ em = NoEm

(* MarkovAutoregression.__init__ *)
Construct ==
    /\ built = "none"
    /\ \E a \in ConstructorInputs :
        /\ built' = IF ConstructionFails(a) THEN "error" ELSE "ok"
        /\ model' = IF ConstructionFails(a) THEN NoModel ELSE InitModel(a)
        /\ op' = "__init__"
        /\ arg' = a
        /\ argAfter' = a
        /\ outcome' = IF ConstructionFails(a) THEN "raised" ELSE "returned"
        /\ result' = <<>>
    /\ UNCHANGED em

Ready == built = "ok" /\ op = "none" /\ em.pc = "idle"

(* the caller takes the result; the next call starts from the model alone *)
Return ==
    /\ built = "ok"
    /\ op # "none"
    /\ em.pc \in {"idle", "done"}
    /\ op' = "none"
    /\ arg' = <<>>
    /\ argAfter' = <<>>
    /\ outcome' = "none"
    /\ result' = <<>>
    /\ em' = NoEm
    /\ UNCHANGED <<built, model>>

(* line 192: _resid returns the tensor; run is the state it ends in *)
ResidReturns(run) ==
    /\ model' = [model EXCEPT !.resid_slices = run.slices]
    /\ outcome' = "returned"
    /\ result' = ResidResult(model, run)

(* line 210, or the exception of lines 207-208 *)
LikelihoodsReturn(r) ==
    /\ outcome' = r.outcome
    /\ result' = r.value

(* lines 200-210: run is the state the call of _resid at line 200 ends in *)
ConditionalLikelihoodsReturns(params, run) ==
    /\ model' = [model EXCEPT !.resid_slices = run.slices]
    /\ LikelihoodsReturn(LikelihoodsOfResid(model, params, ResidResult(model, run)))

(* _resid(params) *)
CallResid ==
    /\ Ready
    /\ \E params \in ParamInputs(model) :
        /\ op' = "_resid"
        /\ arg' = params
        /\ argAfter' = CallerParamsAfterResid(params)
        /\ ResidReturns(ResidRun(model, params))
    /\ UNCHANGED <<built, em>>

(* _conditional_likelihoods(params) *)
CallConditionalLikelihoods ==
    /\ Ready
    /\ \E params \in VarianceInputs(model) :
        /\ op' = "_conditional_likelihoods"
        /\ arg' = params
        /\ argAfter' = CallerParamsAfterResid(params)
        /\ ConditionalLikelihoodsReturns(params, ResidRun(model, params))
    /\ UNCHANGED <<built, em>>

(* transform_params(unconstrained) *)
CallTransformParams ==
    /\ Ready
    /\ \E unconstrained \in UnconstrainedInputs(model) :
        /\ op' = "transform_params"
        /\ arg' = unconstrained
        /\ argAfter' = unconstrained
        /\ outcome' = "returned"
        /\ result' = transform_params(model, unconstrained)
    /\ UNCHANGED <<built, model, em>>

(* untransform_params(constrained) *)
CallUntransformParams ==
    /\ Ready
    /\ \E constrained \in ConstrainedInputs(model) :
        /\ op' = "untransform_params"
        /\ arg' = constrained
        /\ argAfter' = constrained
        /\ outcome' = "returned"
        /\ result' = untransform_params(model, constrained)
    /\ UNCHANGED <<built, model, em>>

(* start_params *)
CallStartParams ==
    /\ Ready
    /\ op' = "start_params"
    /\ arg' = <<>>
    /\ argAfter' = <<>>
    /\ outcome' = "returned"
    /\ result' = start_params(model)
    /\ UNCHANGED <<built, model, em>>

(* _em_autoregressive(result, betas) *)
CallEmAutoregressive ==
    /\ Ready
    /\ \E smoothed \in SmoothedInputs(model), betas \in BetasInputs(model) :
        /\ op' = "_em_autoregressive"
        /\ arg' = [smoothed |-> smoothed, betas |-> betas]
        /\ argAfter' = [smoothed |-> smoothed, betas |-> betas]
        /\ result' = em_autoregressive(model, smoothed, betas)
        /\ outcome' = result'.outcome
    /\ UNCHANGED <<built, model, em>>

(* _em_iteration(params0), lines 229-232: the inherited E-step ran the smoother *)
EmIterationEStep ==
    /\ Ready
    /\ \E params0 \in ParamInputs(model), smoothed \in KnownSmoothedInputs(model) :
        /\ op' = "_em_iteration"
        /\ arg' = params0
        /\ argAfter' = params0
        /\ em' = [NoEm EXCEPT !.pc = "exog", !.smoothed = smoothed,
                              !.params1 = InheritedParams(model),
                              !.trace = <<"e_step">>, !.outcome = "running"]
    /\ outcome' = "running"
    /\ result' = <<>>
    /\ UNCHANGED <<built, model>>

(* _em_iteration, lines 234-240 *)
EmIterationExogStep ==
    /\ em.pc = "exog"
    /\ em' = [EmIterationExog(model, em) EXCEPT !.pc = "autoregressive"]
    /\ UNCHANGED <<built, model, op, arg, argAfter, outcome, result>>

(* _em_iteration, lines 242-257 *)
EmIterationAutoregressiveStep ==
    /\ em.pc = "autoregressive"
    /\ em' = EmReturn(EmIterationAutoregressive(model, em))
    /\ outcome' = em'.outcome
    /\ result' = IF em'.outcome = "raised" THEN <<>>
                 ELSE [smoothed |-> em'.smoothed, params1 |-> em'.params1]
    /\ UNCHANGED <<built, model, op, arg, argAfter>>

Next ==
    \/ Construct
    \/ Return
    \/ CallResid
    \/ CallConditionalLikelihoods
    \/ CallTransformParams
    \/ CallUntransformParams
    \/ CallStartParams
    \/ CallEmAutoregressive
    \/ EmIterationEStep
    \/ EmIterationExogStep
    \/ EmIterationAutoregressiveStep

Spec == Init /\ [][Next]_vars

(* the likelihood pathway alone *)
NextLikelihood ==
    \/ Construct
    \/ Return
    \/ CallResid
    \/ CallConditionalLikelihoods

SpecLikelihood == Init /\ [][NextLikelihood]_vars

(* the parameter vectors alone *)
NextParams ==
    \/ Construct
    \/ Return
    \/ CallTransformParams
    \/ CallUntransformParams
    \/ CallStartParams

SpecParams == Init /\ [][NextParams]_vars

(* the EM step alone *)
NextEm ==
    \/ Construct
    \/ Return
    \/ CallEmAutoregressive
    \/ EmIterationEStep
    \/ EmIterationExogStep
    \/ EmIterationAutoregressiveStep

SpecEm == Init /\ [][NextEm]_vars


---------------------------------------------------------------------------
(* Claims *)

Beta(m, params, i) == Take(params, ParamIdx(m, i, "exog"))
Phi(m, params, i) == Take(params, ParamIdx(m, i, "autoregressive"))
VarianceOf(m, params, i) == params[ParamIdx(m, i, "variance")[1]]

(* y_s - x_s . beta_i at position s (1-based) of the untrimmed sample *)
Deviation(m, params, i, s) ==
    IF m.k_exog > 0
    THEN RSub(m.orig_endog[s], Dot(m.orig_exog[s], Beta(m, params, i)))
    ELSE m.orig_endog[s]

(* the one-step prediction residual under the regime history h at trimmed time t *)
PredictionResidual(m, params, h, t) ==
    LET s == m.order + t + 1
        lags == [j \in 1..m.order |->
                    RMul(Phi(m, params, h[1])[j], Deviation(m, params, h[j + 1], s - j))]
    IN  RSub(Deviation(m, params, h[1], s), VSum(lags))

HistoryShape(m) ==
    [a \in 1..(m.order + 2) |->
        IF a <= m.order + 1 THEN m.k_regimes ELSE Len(m.orig_endog) - m.order]

(* C1: the entry of the tensor _resid returns at regime history              *)
(* (h0, ..., h_order) and time t is y_t - x_t.beta_{h0} minus, once for each *)
(* lag j = 1..order, phi_{h0,j} * (y_{t-j} - x_{t-j}.beta_{hj}); with order  *)
(* 0 nothing is subtracted but x_t.beta_{h0}.                                *)
C1_ResidIsPredictionResidual ==
    (op = "_resid") =>
        \A idx \in Indices(HistoryShape(model)) :
            result.data[idx] =
                PredictionResidual(model, arg, SubSeqTo(idx, model.order + 1), Last(idx))

C1_Witness ==
    /\ op = "_resid"
    /\ model.order = 2
    /\ model.k_regimes = 2
    /\ model.k_exog > 0
    /\ \E idx \in DOMAIN result.data :
        /\ idx[1] # idx[2]
        /\ idx[2] # idx[3]
        /\ result.data[idx] # model.endog[Last(idx) + 1]

(* C2: with switching_variance the tensor _conditional_likelihoods returns   *)
(* has the shape of the residual tensor and its entry at history             *)
(* (h0, ..., h_order) and time t is the density of the residual at that      *)
(* index under the variance of the current regime h0.                        *)
C2_DensityUsesCurrentRegimeVariance ==
    (/\ op = "_conditional_likelihoods"
     /\ model.switching_variance
     /\ \A i \in Regimes(model) : RPos(VarianceOf(model, arg, i))) =>
        /\ outcome = "returned"
        /\ result.shape = HistoryShape(model)
        /\ \A idx \in Indices(HistoryShape(model)) :
            result.data[idx] =
                Density(PredictionResidual(model, arg, SubSeqTo(idx, model.order + 1),
                                           Last(idx)),
                        VarianceOf(model, arg, idx[1]))

(* C3: the tensor _resid returns has order + 2 axes, order + 1 of length     *)
(* k_regimes and a last one of length T = (observations given to the         *)
(* constructor) - order, which is the model's nobs, whatever was called      *)
(* before.                                                                   *)
C3_ResidShape ==
    /\ (built = "ok") => (model.nobs = Len(model.orig_endog) - model.order)
    /\ (op = "_resid") =>
        /\ Len(result.shape) = model.order + 2
        /\ result.shape = HistoryShape(model)
        /\ DOMAIN result.data = Indices(HistoryShape(model))

C3_Witness ==
    /\ op = "_resid"
    /\ model.order = 2
    /\ model.k_regimes = 2
    /\ result.shape = <<2, 2, 2, Len(model.orig_endog) - 2>>
    /\ Len(model.orig_endog) - 2 >= 2

(* C4: construction raises and leaves no model when the observations are no  *)
(* more than order or when switching_ar is a sequence whose length is not    *)
(* order; with a boolean switching_ar and more observations than order it    *)
(* succeeds.                                                                 *)
C4_ConstructionErrors ==
    (op = "__init__") =>
        /\ (Len(arg.endog) <= arg.order) => (built = "error" /\ model = NoModel)
        /\ (~arg.switching_ar.isBool /\ Len(arg.switching_ar.list) # arg.order)
                => (built = "error" /\ model = NoModel)
        /\ (built = "error") => (outcome = "raised")
        /\ (arg.switching_ar.isBool /\ Len(arg.endog) > arg.order)
                => (built = "ok" /\ outcome = "returned")

C4_Witness ==
    /\ op = "__init__"
    /\ built = "error"
    /\ arg.switching_ar.isBool
    /\ Len(arg.endog) = arg.order
    /\ arg.order > 0

(* C5: when the variance block passed to _conditional_likelihoods holds a    *)
(* zero or negative value the call raises.                                   *)
C5_NonPositiveVarianceRaises ==
    (/\ op = "_conditional_likelihoods"
     /\ \E i \in Regimes(model) : ~RPos(VarianceOf(model, arg, i)))
        => outcome = "raised"


(* C6: whatever the switching_ar configuration, the AR block of every regime *)
(* i read from transform_params(u) is to_constrained of regime i's AR block  *)
(* of u, and the AR block of every regime read from untransform_params(c) is *)
(* to_unconstrained of regime i's AR block of c.                             *)
C6_TransformIsPerRegime ==
    /\ (op = "transform_params") =>
        \A i \in Regimes(model) :
            Phi(model, result, i) = to_constrained(Phi(model, arg, i))
    /\ (op = "untransform_params") =>
        \A i \in Regimes(model) :
            Phi(model, result, i) = to_unconstrained(Phi(model, arg, i))


(* C7: start_params gives regime i, for each switching exogenous and each    *)
(* switching autoregressive coefficient, the pooled OLS coefficient times    *)
(* i / k_regimes (so 0 for regime 0); its variance block is k_regimes values *)
(* spaced evenly from v / 10 to v when the variance switches and the single  *)
(* value v otherwise, v the variance of the pooled OLS residuals.            *)
C7_StartParamsScaling ==
    (op = "start_params") =>
        LET beta == PooledBeta(model)
            v == PooledVarianceOn(model, PooledExog(model), PooledBeta(model))
            k == model.k_regimes
        IN  /\ \A i \in Regimes(model) :
                /\ \A c \in 1..model.k_exog :
                    model.switching_coeffs[c] =>
                        Beta(model, result, i)[c] = RDiv(RMul(beta[c], R(i)), R(k))
                /\ \A j \in 1..model.order :
                    model.switching_ar[j] =>
                        Phi(model, result, i)[j] =
                            RDiv(RMul(beta[model.k_exog + j], R(i)), R(k))
            /\ model.switching_variance =>
                /\ VarianceOf(model, result, 0) = RDiv(v, R(10))
                /\ VarianceOf(model, result, k - 1) = v
                /\ \A i \in 1..(k - 1) :
                    RSub(VarianceOf(model, result, i), VarianceOf(model, result, i - 1))
                        = RDiv(RSub(v, RDiv(v, R(10))), R(k - 1))
            /\ ~model.switching_variance =>
                Take(result, ParamSlice(model, "variance")) = <<v>>

C7_Witness ==
    /\ op = "start_params"
    /\ model.switching_variance
    /\ model.order = 2
    /\ model.switching_ar = <<FALSE, TRUE>>
    /\ model.k_exog > 0
    /\ model.switching_coeffs[1]
    /\ Phi(model, result, 1)[2] # Zero
    /\ Beta(model, result, 1)[1] # Zero
    /\ Phi(model, result, 0)[2] = Zero
    /\ RPos(VarianceOf(model, result, 0))

(* the ordinary least-squares AR(order) fit of the regime-adjusted series    *)
(* e_r on its own lags, and that fit's residual sum of squares               *)
OlsFit(m, betas, r) ==
    LET e == RegimeAdjusted(m, betas, r)
    IN  LeastSquares(lagmat(e, m.order), m.order, Drop(e, m.order))

OlsRss(m, betas, r) ==
    LET e == RegimeAdjusted(m, betas, r)
    IN  SumSq(VSub(Drop(e, m.order), MatVec(lagmat(e, m.order), OlsFit(m, betas, r))))

(* C8: when the smoothed probabilities give probability 1 to regime r at     *)
(* every time, _em_autoregressive returns for regime r the unweighted        *)
(* least-squares AR(order) coefficients of e_r on its own lags and, when the *)
(* variance does not switch, the shared variance RSS / T of that fit.        *)
C8_CertainRegimeIsOls ==
    (op = "_em_autoregressive" /\ outcome = "returned") =>
        \A r \in Regimes(model) :
            (arg.smoothed = Certain(model, r)) =>
                /\ result.coeffs[r + 1] = OlsFit(model, arg.betas, r)
                /\ ~model.switching_variance =>
                    result.variance =
                        <<RDiv(OlsRss(model, arg.betas, r),
                               R(Len(model.orig_endog) - model.order))>>

C8_Witness ==
    /\ op = "_em_autoregressive"
    /\ outcome = "returned"
    /\ model.order = 2
    /\ model.k_exog > 0
    /\ ~model.switching_variance
    /\ arg.smoothed = Certain(model, 1)
    /\ result.coeffs[2][1] # Zero
    /\ result.coeffs[2][2] # Zero
    /\ RPos(result.variance[1])

(* the steps an _em_iteration of the model has to take, in order *)
EmSteps(m) ==
    <<"e_step">> \o (IF m.k_exog > 0 THEN <<"exog">> ELSE <<>>)
                 \o (IF m.order > 0 THEN <<"autoregressive_joint">> ELSE <<>>)

(* C9: an _em_iteration with order > 0 runs the E-step, then (with           *)
(* exogenous or trend regressors) the re-estimation of their coefficients,   *)
(* written into the new parameter vector, then the joint path                *)
(* _em_autoregressive on the smoothed probabilities of the E-step and the    *)
(* coefficients of the second step; the AR-only path is never taken and the  *)
(* call never raises on the absent coefficients.                             *)
C9_EmIterationOrder ==
    (op = "_em_iteration" /\ model.order > 0) =>
        /\ (em.pc = "exog") => em.trace = <<"e_step">>
        /\ (em.pc = "autoregressive") =>
            /\ em.trace = SubSeqTo(EmSteps(model), Len(EmSteps(model)) - 1)
            /\ model.k_exog > 0 =>
                /\ em.coeffs = em_exog(model, model.endog, model.exog,
                                       model.switching_coeffs,
                                       SqrtProbabilities(em.smoothed))
                /\ \A i \in Regimes(model) :
                    Beta(model, em.params1, i) = em.coeffs[i + 1]
        /\ (em.pc = "done") =>
            /\ em.trace = EmSteps(model)
            /\ outcome = "returned"
            /\ em.arBetas = em.coeffs
            /\ (model.k_exog = 0) => (em.coeffs = <<>>)
            /\ LET r == em_autoregressive(model, em.smoothed, em.coeffs)
               IN  /\ \A i \in Regimes(model) : \A j \in 1..model.order :
                        model.switching_ar[j] =>
                            Phi(model, result.params1, i)[j] = r.coeffs[i + 1][j]
                   /\ Take(result.params1, ParamSlice(model, "variance")) = r.variance
                   /\ \A i \in Regimes(model) :
                        Beta(model, result.params1, i) =
                            IF model.k_exog > 0 THEN em.coeffs[i + 1] ELSE <<>>

C9_Witness ==
    /\ op = "_em_iteration"
    /\ em.pc = "done"
    /\ model.order = 2
    /\ model.k_exog > 0
    /\ em.trace = <<"e_step", "exog", "autoregressive_joint">>
    /\ em.coeffs[1] # em.coeffs[2]
    /\ Phi(model, result.params1, 0) # Phi(model, result.params1, 1)

(* C10: once the model is constructed no call changes it (k_regimes, order,  *)
(* nobs, the switching flags, the trimmed and the original series, exog_ar   *)
(* and the index template _resid_slices all stay as constructed), and no     *)
(* call changes the parameter vector the caller passed.                      *)
C10_CallsLeaveModelAndParams ==
    [][/\ (built = "ok") => (model' = model)
       /\ argAfter' = arg']_vars

C10_Witness ==
    /\ built = "ok"
    /\ op = "_resid"
    /\ model.order = 2
    /\ argAfter = arg
    /\ model.resid_slices = <<All, All, All>>
    /\ \E idx \in DOMAIN result.data : result.data[idx] # model.endog[Last(idx) + 1]

=============================================================================
